---- MODULE Spec2Model ----
(***************************************************************************)
(* The incremental HTTP/1.1 response parser of src/src/http.rs.            *)
(*                                                                         *)
(* A byte is a string: an ASCII byte is its character ("H", " ", "CR",     *)
(* "LF"), "xC3" is the lead byte and "xA9" the continuation byte of the    *)
(* two-byte UTF-8 sequence of U+00E9.  A char is a string too: an ASCII    *)
(* char is its byte, "U+00E9" is the decoded two-byte char and "U+FFFD"    *)
(* the replacement char of a lossy decode.  A Rust String is a sequence of *)
(* chars; its len() is the sum of the UTF-8 widths of its chars.           *)
(* Option<T> is a sequence: <<>> is None, <<v>> is Some(v).                *)
(***************************************************************************)
EXTENDS Integers, Sequences, FiniteSets, TLC

VARIABLES combined, pos, content_length, end_headers, error, read_body,
          parsed, input, ret, log, failure, eof_called, aborted, reads

vars == <<combined, pos, content_length, end_headers, error, read_body,
          parsed, input, ret, log, failure, eof_called, aborted, reads>>

\* ------------------------------------------------------------------ bounds
\* The largest slice a parse() call is given, apart from "all that is left".
MaxChunk == 2

\* ----------------------------------------------------------------- Option
None == <<>>
Some(v) == <<v>>
is_none(o) == o = <<>>
is_some(o) == o # <<>>

\* ------------------------------------------------------- bytes and chars
CR == "CR"
LF == "LF"
CRLF == <<CR, LF>>

Min(a, b) == IF a < b THEN a ELSE b

\* char::len_utf8
len_utf8(c) == IF c = "U+FFFD" THEN 3 ELSE IF c = "U+00E9" THEN 2 ELSE 1

\* String::len, the length in bytes of the UTF-8 encoding (summed by halves)
RECURSIVE String_len(_)
String_len(s) ==
    IF s = <<>> THEN 0
    ELSE IF Len(s) = 1 THEN len_utf8(s[1])
    ELSE LET m == Len(s) \div 2
         IN  String_len(SubSeq(s, 1, m)) + String_len(SubSeq(s, m + 1, Len(s)))

\* String::from_utf8_lossy: a valid sequence decodes to its char, every byte
\* that starts no valid sequence (a lead byte without its continuation, at
\* the end of the slice too, or a stray continuation) becomes U+FFFD.
\* The slice is decoded by halves, cut where no sequence is split.
RECURSIVE from_utf8_lossy(_)
from_utf8_lossy(b) ==
    IF b = <<>> THEN <<>>
    ELSE IF Len(b) = 1
         THEN IF b[1] \in {"xC3", "xA9"} THEN <<"U+FFFD">> ELSE <<b[1]>>
    ELSE IF b = <<"xC3", "xA9">> THEN <<"U+00E9">>
    ELSE LET m == Len(b) \div 2
             cut == IF b[m] = "xC3" /\ b[m + 1] = "xA9" THEN m + 1 ELSE m
         IN  from_utf8_lossy(SubSeq(b, 1, cut))
             \o from_utf8_lossy(SubSeq(b, cut + 1, Len(b)))

\* char::to_lowercase on the chars of the model
Lower ==
    "A" :> "a" @@ "B" :> "b" @@ "C" :> "c" @@ "D" :> "d" @@ "E" :> "e" @@
    "F" :> "f" @@ "G" :> "g" @@ "H" :> "h" @@ "I" :> "i" @@ "J" :> "j" @@
    "K" :> "k" @@ "L" :> "l" @@ "M" :> "m" @@ "N" :> "n" @@ "O" :> "o" @@
    "P" :> "p" @@ "Q" :> "q" @@ "R" :> "r" @@ "S" :> "s" @@ "T" :> "t" @@
    "U" :> "u" @@ "V" :> "v" @@ "W" :> "w" @@ "X" :> "x" @@ "Y" :> "y" @@
    "Z" :> "z"

\* str::to_lowercase
to_lowercase(s) ==
    [i \in 1..Len(s) |-> IF s[i] \in DOMAIN Lower THEN Lower[s[i]] ELSE s[i]]

DigitVal ==
    "0" :> 0 @@ "1" :> 1 @@ "2" :> 2 @@ "3" :> 3 @@ "4" :> 4 @@
    "5" :> 5 @@ "6" :> 6 @@ "7" :> 7 @@ "8" :> 8 @@ "9" :> 9

\* the closure given to iter_expect_each_char, '0' <= c && c <= '9', as the
\* set of the chars it accepts
CodeDigits == DOMAIN DigitVal
is_code_digit(c) == c \in CodeDigits

RECURSIVE DigitsValue(_, _)
DigitsValue(s, acc) ==
    IF s = <<>> THEN acc ELSE DigitsValue(Tail(s), acc * 10 + DigitVal[s[1]])

\* i32::from_str_radix(s, 10) and usize::from_str_radix(s, 10) on the strings
\* the parser gives them: an optional '+', then at least one digit
\* (a '-' alone or before digits of a usize, an empty string and any other
\* char are errors).  None is the Err case.
from_str_radix(s) ==
    LET d == IF s # <<>> /\ s[1] = "+" THEN Tail(s) ELSE s
    IN  IF d # <<>> /\ \A i \in 1..Len(d) : d[i] \in DOMAIN DigitVal
        THEN Some(DigitsValue(d, 0))
        ELSE None

\* str::is_char_boundary(n) of s: n bytes are a whole number of chars
is_char_boundary(s, n) ==
    \E k \in 0..Len(s) : String_len(SubSeq(s, 1, k)) = n

\* &s[0..n] for n on a char boundary
str_prefix(s, n) ==
    LET k == CHOOSE k \in 0..Len(s) : String_len(SubSeq(s, 1, k)) = n
    IN  SubSeq(s, 1, k)

\* ----------------------------------------------------------- HttpIterError
EndOfString == [tag |-> "EndOfString"]
Fatal(m, a) == [tag |-> "Fatal", msg |-> m, arg |-> a]
\* Ok((iter, value)): the iterator is the count k of chars of buf that the
\* nested Skip adaptors have asked to skip; value is what was extracted.
Ok(k, v) == [tag |-> "Ok", iter |-> k, val |-> v]

\* iter.clone().take(n) of buf.chars().enumerate() with k chars skipped
take(buf, k, n) == SubSeq(buf, k + 1, Min(k + n, Len(buf)))

iter_extract(buf, k, char_count) ==
    LET next == take(buf, k, char_count)
    IN  IF String_len(next) < char_count THEN EndOfString
        ELSE Ok(k + char_count, next)

\* iter_expect after its iter_extract(..)? returned r
expect_value(r, value) ==
    IF r.tag # "Ok" THEN r
    ELSE IF r.val # value THEN Fatal("Comparison failed", <<>>)
    ELSE r

iter_expect(buf, k, value) ==
    expect_value(iter_extract(buf, k, String_len(value)), value)

\* Variant: the chars are tested once char_count of them are there.
iter_expect_each_char_when_complete(buf, k, char_count, expect, errmsg) ==
    LET out == take(buf, k, char_count)
    IN  IF String_len(out) < char_count THEN EndOfString
        ELSE IF \E i \in 1..Len(out) : out[i] \notin expect THEN Fatal(errmsg, <<>>)
        ELSE Ok(k + char_count, out)

\* expect is the set of the chars the closure accepts, errmsg its error
iter_expect_each_char(buf, k, char_count, expect, errmsg) ==
    LET out == take(buf, k, char_count)
    IN  IF \E i \in 1..Len(out) : out[i] \notin expect THEN Fatal(errmsg, <<>>)
        ELSE IF String_len(out) < char_count THEN EndOfString
        ELSE Ok(k + char_count, out)

\* the number of chars pushed to out when out first ends with "\r\n";
\* 0 when the chars after the first k hold no "\r\n"
eol_count(buf, k) ==
    LET ends == {m \in 2..(Len(buf) - k) : buf[k + m - 1] = CR /\ buf[k + m] = LF}
    IN  IF k >= Len(buf) \/ ends = {} THEN 0
        ELSE CHOOSE m \in ends : \A n \in ends : m <= n

\* iter_extract_to_eol with out the m chars pushed: skip(out.len()) and
\* out[0..out.len() - 2]
extract_out(k, out) ==
    Ok(k + String_len(out), SubSeq(out, 1, Len(out) - 2))

eol_or_end(buf, k, m) ==
    IF m = 0 THEN EndOfString ELSE extract_out(k, SubSeq(buf, k + 1, k + m))

iter_extract_to_eol(buf, k) == eol_or_end(buf, k, eol_count(buf, k))

\* str::split_once(": "): None, or Some((before, after)) of the first ": "
split_once(line) ==
    LET at == {i \in 1..(Len(line) - 1) : line[i] = ":" /\ line[i + 1] = " "}
    IN  IF at = {} THEN None
        ELSE LET i == CHOOSE i \in at : \A j \in at : i <= j
             IN  Some(<<SubSeq(line, 1, i - 1), SubSeq(line, i + 2, Len(line))>>)

\* Variant: every line without ": " ends the headers.
header_pair_lenient(k, line, pair) ==
    IF is_some(pair) THEN Ok(k, pair) ELSE Ok(k, None)

\* iter_extract_header_pair after the line was extracted and split
header_pair(k, line, pair) ==
    IF is_some(pair) THEN Ok(k, pair)
    ELSE IF String_len(line) = 0 THEN Ok(k, None)
    ELSE Fatal("Invalid HTTP header: ", line)

header_of_line(r) ==
    IF r.tag # "Ok" THEN r ELSE header_pair(r.iter, r.val, split_once(r.val))

iter_extract_header_pair(buf, k) == header_of_line(iter_extract_to_eol(buf, k))

\* HttpIterStride::to_stride: the index of the next char the iterator yields
Stride(n) == [tag |-> "Stride", n |-> n]
End == [tag |-> "End"]
to_stride(buf, k) == IF k < Len(buf) THEN Stride(k) ELSE End

\* ------------------------------------------------------------- HttpParser
HTTP_1_1 == <<"H", "T", "T", "P", "/", "1", ".", "1", " ">>
SP == <<" ">>
TRANSFER_ENCODING ==
    <<"t", "r", "a", "n", "s", "f", "e", "r", "-",
      "e", "n", "c", "o", "d", "i", "n", "g">>
CONTENT_LENGTH ==
    <<"c", "o", "n", "t", "e", "n", "t", "-", "l", "e", "n", "g", "t", "h">>

\* HashMap::new and HashMap::insert; HashMap::get(k) is Some exactly when
\* k \in DOMAIN h
EmptyMap == [k \in {} |-> <<>>]
insert(h, key, value) ==
    [k \in DOMAIN h \cup {key} |-> IF k = key THEN value ELSE h[k]]

\* HttpParser::init
init(rb) ==
    [combined |-> <<>>, pos |-> 0, content_length |-> None,
     parsed |-> [code |-> None, msg |-> None, headers |-> EmptyMap, body |-> None],
     end_headers |-> FALSE, error |-> FALSE, read_body |-> rb]

\* Variants of the mode selection, to tell the properties below apart from
\* ones that hold of any parser: one that does not test the error flag, the
\* one of src/main.rs (the Body mode is entered without read_body), and one
\* that reads the reason phrase before the status code.
iter_mode_ignoring_error(self) ==
    IF is_none(self.parsed.code) THEN "Code"
    ELSE IF is_none(self.parsed.msg) THEN "Msg"
    ELSE IF ~self.end_headers THEN "Header"
    ELSE IF self.read_body /\ is_none(self.parsed.body) THEN "Body"
    ELSE "Return"

iter_mode_without_read_body(self) ==
    IF self.error THEN "Error"
    ELSE IF is_none(self.parsed.code) THEN "Code"
    ELSE IF is_none(self.parsed.msg) THEN "Msg"
    ELSE IF ~self.end_headers THEN "Header"
    ELSE IF is_none(self.parsed.body) THEN "Body"
    ELSE "Return"

iter_mode_msg_first(self) ==
    IF self.error THEN "Error"
    ELSE IF is_none(self.parsed.msg) THEN "Msg"
    ELSE IF is_none(self.parsed.code) THEN "Code"
    ELSE IF ~self.end_headers THEN "Header"
    ELSE IF self.read_body /\ is_none(self.parsed.body) THEN "Body"
    ELSE "Return"

\* Variant: the header lines are read before the reason phrase.
iter_mode_header_first(self) ==
    IF self.error THEN "Error"
    ELSE IF is_none(self.parsed.code) THEN "Code"
    ELSE IF ~self.end_headers THEN "Header"
    ELSE IF is_none(self.parsed.msg) THEN "Msg"
    ELSE IF self.read_body /\ is_none(self.parsed.body) THEN "Body"
    ELSE "Return"

\* the mode chosen at the head of next(); "Return" is the else branch
iter_mode(self) ==
    IF self.error THEN "Error"
    ELSE IF is_none(self.parsed.code) THEN "Code"
    ELSE IF is_none(self.parsed.msg) THEN "Msg"
    ELSE IF ~self.end_headers THEN "Header"
    ELSE IF self.read_body /\ is_none(self.parsed.body) THEN "Body"
    ELSE "Return"

\* The arm of a mode: [self, stride], stride being Ok(stride, _), an
\* HttpIterError or Panic.
Panic(m) == [tag |-> "Panic", msg |-> m]
Arm(self, stride) == [self |-> self, stride |-> stride]

\* the last and_then of the Code arm: the digits parsed, code set
set_code(self, buf, k, code) ==
    IF is_none(code) THEN Arm(self, Fatal("", <<>>))
    ELSE Arm([self EXCEPT !.parsed.code = Some(code[1])],
             Ok(to_stride(buf, k), <<>>))

\* the and_then chain of the Code arm, from the result of each link
code_space(self, buf, digits, r3) ==
    IF r3.tag # "Ok" THEN Arm(self, r3)
    ELSE set_code(self, buf, r3.iter, from_str_radix(digits))

code_digits(self, buf, r2) ==
    IF r2.tag # "Ok" THEN Arm(self, r2)
    ELSE code_space(self, buf, r2.val, iter_expect(buf, r2.iter, SP))

code_literal(self, buf, r1) ==
    IF r1.tag # "Ok" THEN Arm(self, r1)
    ELSE code_digits(self, buf,
            iter_expect_each_char(buf, r1.iter, 3, CodeDigits,
                                  "HTTP code must be 3 digits"))

mode_Code(self, buf) == code_literal(self, buf, iter_expect(buf, 0, HTTP_1_1))

set_msg(self, buf, r) ==
    IF r.tag # "Ok" THEN Arm(self, r)
    ELSE Arm([self EXCEPT !.parsed.msg = Some(r.val)],
             Ok(to_stride(buf, r.iter), <<>>))

mode_Msg(self, buf) == set_msg(self, buf, iter_extract_to_eol(buf, 0))

\* self.content_length = Some(usize::from_str_radix(length, 10).map_err(..)?)
set_content_length(s, buf, k, length, n) ==
    IF is_none(n)
    THEN Arm(s, Fatal("Error parsing content length: ", length))
    ELSE Arm([s EXCEPT !.content_length = Some(n[1])],
             Ok(to_stride(buf, k), <<>>))

\* Variant: content-length is tested before transfer-encoding.
body_length_content_length_first(s, buf, k) ==
    IF ~s.read_body THEN Arm(s, Ok(to_stride(buf, k), <<>>))
    ELSE IF CONTENT_LENGTH \in DOMAIN s.parsed.headers
    THEN set_content_length(s, buf, k, s.parsed.headers[CONTENT_LENGTH],
                            from_str_radix(s.parsed.headers[CONTENT_LENGTH]))
    ELSE IF TRANSFER_ENCODING \in DOMAIN s.parsed.headers
    THEN Arm(s, Panic("not yet implemented"))
    ELSE Arm(s, Fatal("Missing content length specifier", <<>>))

\* Variant: a response without a length has an empty body.
body_length_or_zero(s, buf, k) ==
    IF ~s.read_body THEN Arm(s, Ok(to_stride(buf, k), <<>>))
    ELSE IF TRANSFER_ENCODING \in DOMAIN s.parsed.headers
    THEN Arm(s, Panic("not yet implemented"))
    ELSE IF CONTENT_LENGTH \in DOMAIN s.parsed.headers
    THEN set_content_length(s, buf, k, s.parsed.headers[CONTENT_LENGTH],
                            from_str_radix(s.parsed.headers[CONTENT_LENGTH]))
    ELSE Arm([s EXCEPT !.content_length = Some(0)], Ok(to_stride(buf, k), <<>>))

\* the decision on the body length, end_headers being set
body_length(s, buf, k) ==
    IF ~s.read_body THEN Arm(s, Ok(to_stride(buf, k), <<>>))
    ELSE IF TRANSFER_ENCODING \in DOMAIN s.parsed.headers
    THEN Arm(s, Panic("not yet implemented"))
    ELSE IF CONTENT_LENGTH \in DOMAIN s.parsed.headers
    THEN set_content_length(s, buf, k, s.parsed.headers[CONTENT_LENGTH],
                            from_str_radix(s.parsed.headers[CONTENT_LENGTH]))
    ELSE Arm(s, Fatal("Missing content length specifier", <<>>))

\* the blank line: end_headers, then the decision on the body length
end_of_headers(self, buf, k) ==
    body_length([self EXCEPT !.end_headers = TRUE], buf, k)

\* Variant: the header is stored under its name as received, as src/main.rs
\* does.
insert_header_verbatim(self, buf, k, key, value) ==
    Arm([self EXCEPT !.parsed.headers = insert(@, key, value)],
        Ok(to_stride(buf, k), <<>>))

insert_header(self, buf, k, key, value) ==
    Arm([self EXCEPT !.parsed.headers = insert(@, to_lowercase(key), value)],
        Ok(to_stride(buf, k), <<>>))

set_header(self, buf, r) ==
    IF r.tag # "Ok" THEN Arm(self, r)
    ELSE IF is_some(r.val)
    THEN insert_header(self, buf, r.iter, r.val[1][1], r.val[1][2])
    ELSE end_of_headers(self, buf, r.iter)

mode_Header(self, buf) == set_header(self, buf, iter_extract_header_pair(buf, 0))

\* Variant: the body is all that is buffered, once len bytes are there.
set_body_whole(self, body, len) ==
    IF String_len(body) < len THEN Arm(self, EndOfString)
    ELSE Arm([self EXCEPT !.parsed.body = Some(body)], Ok(End, <<>>))

\* the Body arm with len the content length: body is all of buf
set_body(self, body, len) ==
    IF String_len(body) < len THEN Arm(self, EndOfString)
    ELSE IF ~is_char_boundary(body, len)
    THEN Arm(self, Panic("byte index is not a char boundary"))
    ELSE Arm([self EXCEPT !.parsed.body = Some(str_prefix(body, len))],
             Ok(End, <<>>))

mode_Body(self, buf) ==
    IF is_none(self.content_length)
    THEN Arm(self, Fatal("Missing content length", <<>>))
    ELSE set_body(self, buf, self.content_length[1])

\* Iterator::next for HttpParser returns an item: out is "None", "Some(Ok)",
\* "Some(Err)" or "panic"; why tells the None cases apart.
Item(self, out, why, msg, arg, mode) ==
    [self |-> self, out |-> out, why |-> why, msg |-> msg, arg |-> arg,
     mode |-> mode]

\* self.pos += stride, or += buf.len() for End
advance(s, buf, stride) ==
    [s EXCEPT !.pos = IF stride.tag = "Stride" THEN @ + stride.n
                      ELSE @ + String_len(buf)]

\* match stride { .. } at the end of next()
match_stride(s, buf, mode, stride) ==
    CASE stride.tag = "Ok" ->
           Item(advance(s, buf, stride.iter), "Some(Ok)", "", "", <<>>, mode)
      [] stride.tag = "EndOfString" ->
           Item(s, "None", "EndOfString", "", <<>>, mode)
      [] stride.tag = "Fatal" ->
           Item([s EXCEPT !.error = TRUE], "Some(Err)", "",
                stride.msg, stride.arg, mode)
      [] stride.tag = "Panic" ->
           Item(s, "panic", "", stride.msg, <<>>, mode)

match_arm(buf, mode, arm) == match_stride(arm.self, buf, mode, arm.stride)

\* Variant: a parser that is done drops what is buffered behind the cursor.
match_mode_draining(self, buf, mode) ==
    CASE mode = "Return" ->
           Item([self EXCEPT !.pos = Len(self.combined)], "None", "Return",
                "", <<>>, mode)
      [] mode = "Error" -> Item(self, "None", "Error", "", <<>>, mode)
      [] mode = "Code" -> match_arm(buf, mode, mode_Code(self, buf))
      [] mode = "Msg" -> match_arm(buf, mode, mode_Msg(self, buf))
      [] mode = "Header" -> match_arm(buf, mode, mode_Header(self, buf))
      [] mode = "Body" -> match_arm(buf, mode, mode_Body(self, buf))

\* match mode { .. }
match_mode(self, buf, mode) ==
    CASE mode = "Return" -> Item(self, "None", "Return", "", <<>>, mode)
      [] mode = "Error" -> Item(self, "None", "Error", "", <<>>, mode)
      [] mode = "Code" -> match_arm(buf, mode, mode_Code(self, buf))
      [] mode = "Msg" -> match_arm(buf, mode, mode_Msg(self, buf))
      [] mode = "Header" -> match_arm(buf, mode, mode_Header(self, buf))
      [] mode = "Body" -> match_arm(buf, mode, mode_Body(self, buf))

\* Iterator::next: &self.combined[self.pos..] panics for pos beyond the end
next(self) ==
    IF self.pos > Len(self.combined)
    THEN Item(self, "panic", "slice", "range start index out of range", <<>>,
              iter_mode(self))
    ELSE match_mode(self,
            from_utf8_lossy(SubSeq(self.combined, self.pos + 1, Len(self.combined))),
            iter_mode(self))

\* What a step can change: every field but the buffer.
fields(self) == [self EXCEPT !.combined = <<>>]

\* One entry of the log of a parse() call, for each next() it made: the
\* mode, what next() returned, the fields before and after, and the bytes
\* buffered behind the cursor when it was called.
LogEntry(self, item) ==
    [mode |-> item.mode, out |-> item.out, why |-> item.why,
     before |-> fields(self), after |-> fields(item.self),
     tail |-> SubSeq(self.combined, self.pos + 1, Len(self.combined))]

\* what parse() returns, with the parser as it leaves it
Parsed(self, res, msg, arg, lg) ==
    [self |-> self, res |-> res, msg |-> msg, arg |-> arg, log |-> lg]

\* the loop of parse(): for res in self { res? }
RECURSIVE for_res_in(_, _)
for_item(item, lg) ==
    CASE item.out = "Some(Ok)" -> for_res_in(item.self, lg)
      [] item.out = "None" -> Parsed(item.self, "Ok", "", <<>>, lg)
      [] item.out = "Some(Err)" ->
           Parsed(item.self, "Err", "Error parsing HTTP: " \o item.msg, item.arg, lg)
      [] item.out = "panic" -> Parsed(item.self, "panic", item.msg, <<>>, lg)

log_item(self, lg, item) == for_item(item, Append(lg, LogEntry(self, item)))

for_res_in(self, lg) == log_item(self, lg, next(self))

\* HttpParser::parse
parse(self, buf) ==
    for_res_in([self EXCEPT !.combined = @ \o buf], <<>>)

\* Variant: eof() returns its error and leaves the flag alone.
eof_without_flag(self) == self

\* HttpParser::eof
eof(self) == [self EXCEPT !.error = TRUE]

\* HttpParser::should_continue
should_continue(self) ==
    IF self.read_body
    THEN ~self.error /\ is_none(self.parsed.body)
    ELSE ~self.error /\ ~self.end_headers

\* ------------------------------------------------------------- the inputs
\* The byte streams a transport can deliver: responses built from a reason
\* phrase, header lines and the bytes after the blank line, and streams
\* whose status line is malformed.
Line(s) == s \o CRLF
Hdr(name, value) == name \o <<":", " ">> \o value

RECURSIVE Lines(_)
Lines(ls) == IF ls = <<>> THEN <<>> ELSE Line(ls[1]) \o Lines(Tail(ls))

Response(c) ==
    HTTP_1_1 \o <<"2", "0", "0">> \o SP \o Line(c.reason) \o Lines(c.lines)
    \o CRLF \o c.rest

Case(reason, lines, rest) == [reason |-> reason, lines |-> lines, rest |-> rest]

OK == <<"O", "K">>
E_ACUTE == <<"xC3", "xA9">>
Content_Length ==
    <<"C", "o", "n", "t", "e", "n", "t", "-", "L", "e", "n", "g", "t", "h">>
hi == <<"h", "i">>

\* complete responses of the wire format: a status line, header lines
\* "name: value", a blank line and a body of Content-Length bytes
WellFormedCases ==
    { Case(OK, <<Hdr(CONTENT_LENGTH, <<"2">>)>>, hi),
      Case(OK, <<Hdr(Content_Length, <<"2">>)>>, hi),
      Case(OK, <<Hdr(<<"x">>, <<"a">>), Hdr(<<"X">>, <<"b">>),
                 Hdr(CONTENT_LENGTH, <<"0">>)>>, <<>>),
      Case(<<>>, <<Hdr(<<"a">>, <<"b", ":", " ", "c">>),
                   Hdr(CONTENT_LENGTH, <<"1">>)>>, <<"h">>),
      Case(OK, <<Hdr(CONTENT_LENGTH, <<"2">>)>>, E_ACUTE),
      Case(OK, <<Hdr(CONTENT_LENGTH, <<"3">>)>>, E_ACUTE \o <<"a">>),
      Case(E_ACUTE, <<Hdr(CONTENT_LENGTH, <<"2">>)>>, hi),
      Case(OK, <<Hdr(<<"x">>, E_ACUTE), Hdr(CONTENT_LENGTH, <<"2">>)>>, hi) }

\* the well-formed ones whose every byte is ASCII
AsciiCases ==
    { c \in WellFormedCases :
        \A i \in 1..Len(Response(c)) : Response(c)[i] \notin {"xC3", "xA9"} }

OtherCases ==
    { Case(OK, <<Hdr(CONTENT_LENGTH, <<"2">>)>>, hi \o <<"X">>),
      Case(OK, <<Hdr(CONTENT_LENGTH, <<"2">>)>>, <<"h">>),
      Case(OK, <<>>, hi),
      Case(OK, <<Hdr(<<"x">>, <<"a">>)>>, hi),
      Case(OK, <<Hdr(TRANSFER_ENCODING, <<"c">>)>>, hi),
      Case(OK, <<Hdr(Content_Length, <<"2">>), Hdr(TRANSFER_ENCODING, <<"c">>)>>, hi),
      Case(OK, <<<<"g", "a", "r", "b", "a", "g", "e">>>>, hi),
      Case(OK, <<Hdr(CONTENT_LENGTH, <<"z">>)>>, hi),
      Case(OK, <<Hdr(CONTENT_LENGTH, <<"+", "2">>)>>, hi),
      Case(<<"xA9">>, <<Hdr(CONTENT_LENGTH, <<"0">>)>>, <<>>) }

BadStatus ==
    { HTTP_1_1 \o <<"2", "A", "B">> \o SP \o Line(OK) \o CRLF,
      <<"H", "T", "T", "P", "/", "1", ".", "0", " ">> \o <<"2", "0", "0">>
          \o SP \o Line(OK) \o CRLF,
      HTTP_1_1 \o <<"2", "0", "0", "X">> \o Line(OK) \o CRLF }

WellFormed == { Response(c) : c \in WellFormedCases }
Inputs == WellFormed \cup { Response(c) : c \in OtherCases } \cup BadStatus

\* ------------------------------------------------------------- the state
\* The parser is the variables combined .. parsed; input is what the
\* transport has still to deliver; ret is what the last call returned, log
\* the steps of the last parse(); failure is the first error a call
\* returned, eof_called tells that eof() was called; aborted tells that a
\* call panicked, which ends the run; reads is the parity of the number of
\* stream.read() calls of HttpParsed::read (0 where the calls are made
\* without it).
Self ==
    [combined |-> combined, pos |-> pos, content_length |-> content_length,
     parsed |-> parsed, end_headers |-> end_headers, error |-> error,
     read_body |-> read_body]

Returned(op, res, msg, arg, n) ==
    [op |-> op, res |-> res, msg |-> msg, arg |-> arg, n |-> n]

Becomes(self) ==
    /\ combined' = self.combined
    /\ pos' = self.pos
    /\ content_length' = self.content_length
    /\ parsed' = self.parsed
    /\ end_headers' = self.end_headers
    /\ error' = self.error
    /\ read_body' = self.read_body

Init ==
    /\ read_body \in BOOLEAN
    /\ input \in Inputs
    /\ combined = init(read_body).combined
    /\ pos = init(read_body).pos
    /\ content_length = init(read_body).content_length
    /\ parsed = init(read_body).parsed
    /\ end_headers = init(read_body).end_headers
    /\ error = init(read_body).error
    /\ ret = Returned("init", "Ok", "", <<>>, 0)
    /\ log = <<>>
    /\ failure = None
    /\ eof_called = FALSE
    /\ aborted = FALSE
    /\ reads = 0

\* the sizes of the next slice: up to MaxChunk bytes, or all that is left
\* (an empty slice once the stream has ended)
ChunkSizes == (1..Min(MaxChunk, Len(input))) \cup {Len(input)}

\* the state after parse() returned r, or panicked
Returns(n, r) ==
    /\ Becomes(r.self)
    /\ ret' = Returned("parse", r.res, r.msg, r.arg, n)
    /\ log' = r.log
    /\ failure' = IF is_none(failure) /\ r.res = "Err"
                  THEN Some(<<r.msg, r.arg>>) ELSE failure
    /\ aborted' = (r.res = "panic")

\* http.parse(&buf[0..n])
Parse(n) ==
    /\ ~aborted
    /\ Returns(n, parse(Self, SubSeq(input, 1, n)))
    /\ input' = SubSeq(input, n + 1, Len(input))
    /\ UNCHANGED <<eof_called, reads>>

\* http.eof()
Eof ==
    /\ ~aborted
    /\ Becomes(eof(Self))
    /\ ret' = Returned("eof", "Err", "eof unexpected", <<>>, 0)
    /\ log' = <<>>
    /\ failure' = IF is_none(failure)
                  THEN Some(<<"eof unexpected", <<>>>>) ELSE failure
    /\ eof_called' = TRUE
    /\ UNCHANGED <<input, aborted, reads>>

Next ==
    \/ \E n \in ChunkSizes : Parse(n)
    \/ Eof

Spec == Init /\ [][Next]_vars

\* ------------------------------------------------- HttpParsed::read
\* The loop of HttpParsed::read on a finite stream: input is what the stream
\* has still to deliver.  ret.op = "into" tells that the loop was left and
\* http.into() returned the ParsedResponse.
Running == ~aborted /\ ret.op # "into"

\* what stream.read(&mut buf) can return as Ok(n): up to MaxChunk bytes or
\* all that is left, and 0 at the end of the stream
ReadSizes ==
    IF input = <<>> THEN {0}
    ELSE (1..Min(MaxChunk, Len(input))) \cup {Len(input)}

\* http.parse(&buf[0..n]).unwrap(): an Err panics as well
Unwraps(n, r) ==
    /\ Becomes(r.self)
    /\ ret' = Returned("parse", r.res, r.msg, r.arg, n)
    /\ log' = r.log
    /\ failure' = IF is_none(failure) /\ r.res = "Err"
                  THEN Some(<<r.msg, r.arg>>) ELSE failure
    /\ aborted' = (r.res # "Ok")

\* one turn of the loop with stream.read() returning Ok(n)
ReadOk(n) ==
    /\ Running
    /\ should_continue(Self)
    /\ \E r \in {parse(Self, SubSeq(input, 1, n))} : Unwraps(n, r)
    /\ input' = SubSeq(input, n + 1, Len(input))
    /\ reads' = 1 - reads
    /\ UNCHANGED eof_called

\* one turn of the loop with stream.read() returning an UnexpectedEof
\* error at the end of the stream: http.eof().unwrap() panics, eof()
\* returning Err
ReadUnexpectedEof ==
    /\ Running
    /\ should_continue(Self)
    /\ input = <<>>
    /\ Becomes(eof(Self))
    /\ ret' = Returned("eof", "Err", "eof unexpected", <<>>, 0)
    /\ log' = <<>>
    /\ failure' = IF is_none(failure)
                  THEN Some(<<"eof unexpected", <<>>>>) ELSE failure
    /\ eof_called' = TRUE
    /\ aborted' = TRUE
    /\ reads' = 1 - reads
    /\ UNCHANGED input

\* the loop is left, should_continue() being false: http.into()
Into ==
    /\ Running
    /\ ~should_continue(Self)
    /\ ret' = Returned("into", "Ok", "", <<>>, 0)
    /\ UNCHANGED <<combined, pos, content_length, end_headers, error,
                   read_body, parsed, input, log, failure, eof_called,
                   aborted, reads>>

ReadNext ==
    \/ \E n \in ReadSizes : ReadOk(n)
    \/ ReadUnexpectedEof
    \/ Into

\* The loop is sequential code: a step that can be taken is taken.  For the
\* turns ReadOk and ReadUnexpectedEof weak fairness is written out: one of
\* them can be taken exactly when the loop is running with should_continue()
\* true, parse() and eof() being total, and the turns are the steps that
\* change reads.
TurnFairness ==
    \/ []<>(~(Running /\ should_continue(Self)))
    \/ []<><<reads' # reads>>_vars

ReadSpec == Init /\ [][ReadNext]_vars /\ WF_vars(Into) /\ TurnFairness

\* ------------------------------------------------- the parser of main.rs
\* src/main.rs holds a copy of the parser that differs from src/http.rs in
\* what follows; its helpers, its Code, Msg and Body arms and its match on
\* the stride are the same text, and are the operators above.
main_Transfer_Encoding ==
    <<"T", "r", "a", "n", "s", "f", "e", "r", "-",
      "E", "n", "c", "o", "d", "i", "n", "g">>
main_Content_Length == Content_Length

\* HttpParser::init of main.rs: there is no read_body
main_init ==
    [combined |-> <<>>, pos |-> 0, content_length |-> None,
     parsed |-> [code |-> None, msg |-> None, headers |-> EmptyMap, body |-> None],
     end_headers |-> FALSE, error |-> FALSE]

main_iter_mode(self) ==
    IF self.error THEN "Error"
    ELSE IF is_none(self.parsed.code) THEN "Code"
    ELSE IF is_none(self.parsed.msg) THEN "Msg"
    ELSE IF ~self.end_headers THEN "Header"
    ELSE IF is_none(self.parsed.body) THEN "Body"
    ELSE "Return"

\* Variant: the lengths are looked up under the lower-case names.
main_body_length_lower_case(s, buf, k) ==
    IF TRANSFER_ENCODING \in DOMAIN s.parsed.headers
    THEN Arm(s, Panic("not yet implemented"))
    ELSE IF CONTENT_LENGTH \in DOMAIN s.parsed.headers
    THEN set_content_length(s, buf, k, s.parsed.headers[CONTENT_LENGTH],
                            from_str_radix(s.parsed.headers[CONTENT_LENGTH]))
    ELSE Arm(s, Fatal("Missing content length specifier", <<>>))

main_body_length(s, buf, k) ==
    IF main_Transfer_Encoding \in DOMAIN s.parsed.headers
    THEN Arm(s, Panic("not yet implemented"))
    ELSE IF main_Content_Length \in DOMAIN s.parsed.headers
    THEN set_content_length(s, buf, k, s.parsed.headers[main_Content_Length],
                            from_str_radix(s.parsed.headers[main_Content_Length]))
    ELSE Arm(s, Fatal("Missing content length specifier", <<>>))

main_end_of_headers(self, buf, k) ==
    main_body_length([self EXCEPT !.end_headers = TRUE], buf, k)

main_insert_header(self, buf, k, key, value) ==
    Arm([self EXCEPT !.parsed.headers = insert(@, key, value)],
        Ok(to_stride(buf, k), <<>>))

main_set_header(self, buf, r) ==
    IF r.tag # "Ok" THEN Arm(self, r)
    ELSE IF is_some(r.val)
    THEN main_insert_header(self, buf, r.iter, r.val[1][1], r.val[1][2])
    ELSE main_end_of_headers(self, buf, r.iter)

main_mode_Header(self, buf) ==
    main_set_header(self, buf, iter_extract_header_pair(buf, 0))

main_match_mode(self, buf, mode) ==
    CASE mode = "Return" -> Item(self, "None", "Return", "", <<>>, mode)
      [] mode = "Error" -> Item(self, "None", "Error", "", <<>>, mode)
      [] mode = "Code" -> match_arm(buf, mode, mode_Code(self, buf))
      [] mode = "Msg" -> match_arm(buf, mode, mode_Msg(self, buf))
      [] mode = "Header" -> match_arm(buf, mode, main_mode_Header(self, buf))
      [] mode = "Body" -> match_arm(buf, mode, mode_Body(self, buf))

main_next(self) ==
    IF self.pos > Len(self.combined)
    THEN Item(self, "panic", "slice", "range start index out of range", <<>>,
              main_iter_mode(self))
    ELSE main_match_mode(self,
            from_utf8_lossy(SubSeq(self.combined, self.pos + 1, Len(self.combined))),
            main_iter_mode(self))

RECURSIVE main_for_res_in(_)
main_for_item(item) ==
    CASE item.out = "Some(Ok)" -> main_for_res_in(item.self)
      [] item.out = "None" -> Parsed(item.self, "Ok", "", <<>>, <<>>)
      [] item.out = "Some(Err)" ->
           Parsed(item.self, "Err", "Error parsing HTTP: " \o item.msg, item.arg, <<>>)
      [] item.out = "panic" -> Parsed(item.self, "panic", item.msg, <<>>, <<>>)

main_for_res_in(self) == main_for_item(main_next(self))

\* HttpParser::parse of main.rs
main_parse(self, buf) ==
    main_for_res_in([self EXCEPT !.combined = @ \o buf])

\* ------------------------------------------------------------- the claims
\* the last step of the last parse() call
LastStep == log[Len(log)]

\* the whole stream has been fed, by parse() calls of at least one byte, and
\* the last of them has returned
AllFed ==
    /\ input = <<>>
    /\ ret.op = "parse"
    /\ ret.n > 0
    /\ ~eof_called
    /\ ~aborted

\* the ParsedResponse and the failure flag of one parse() call on all bytes
SingleCall == parse(init(read_body), combined).self

\* C1: whatever the split of a complete, well-formed response into parse()
\* calls, the ParsedResponse and the failure flag after the last call are
\* those of one parse() call on the whole response.
C1_FragmentationInvariance ==
    (AllFed /\ combined \in WellFormed) =>
        /\ parsed = SingleCall.parsed
        /\ error = SingleCall.error

\* The same for the well-formed responses whose bytes are all ASCII.
AsciiFragmentationInvariance ==
    (AllFed /\ combined \in {Response(c) : c \in AsciiCases}) =>
        /\ parsed = SingleCall.parsed
        /\ error = SingleCall.error

\* C2: once a parse() call has returned a fatal error or eof() has been
\* called, every parse() call returns that failure.
C2_TerminalFailureReporting ==
    (ret.op = "parse" /\ is_some(failure)) =>
        /\ ret.res = "Err"
        /\ <<ret.msg, ret.arg>> = failure[1]

\* C3: once the error flag is set it stays set, and no call changes code,
\* msg, headers, body, end_headers, content_length or pos.
C3_FailedIsTerminal ==
    [][error =>
         /\ error'
         /\ parsed' = parsed
         /\ end_headers' = end_headers
         /\ content_length' = content_length
         /\ pos' = pos]_vars

\* a parse() call was given bytes by a parser that had failed before
C3_Witness ==
    /\ error
    /\ ret.op = "parse"
    /\ ret.n > 0
    /\ log[1].before.error
    /\ input # <<>>

\* C4: with read_body, a blank line after a transfer-encoding header makes
\* parse() return an error and fail the parser, without a panic.
C4_UnsupportedTransferEncoding ==
    (read_body /\ end_headers /\ TRANSFER_ENCODING \in DOMAIN parsed.headers) =>
        /\ ~aborted
        /\ error
        /\ is_some(failure)

\* The tail (the bytes buffered behind the cursor) is too short for the
\* step of the mode: the status line has 13 bytes, the literal being
\* compared once its 9 bytes are there and each digit as it arrives; a
\* line ends with CR LF; the body has content_length bytes.  (A step whose
\* slice combined[pos..] is out of range has no tail.)
HasCRLF(t) == \E i \in 1..(Len(t) - 1) : t[i] = CR /\ t[i + 1] = LF

TooShortFor(mode, t, len) ==
    CASE mode = "Code" ->
           \/ Len(t) < 9
           \/ /\ Len(t) < 13
              /\ SubSeq(t, 1, 9) = HTTP_1_1
              /\ \A i \in 10..Len(t) : is_code_digit(t[i])
      [] mode \in {"Msg", "Header"} -> ~HasCRLF(t)
      [] mode = "Body" -> is_some(len) /\ Len(t) < len[1]
      [] OTHER -> FALSE

TooShort(step) ==
    /\ step.why # "slice"
    /\ TooShortFor(step.mode, step.tail, step.before.content_length)

\* C5: a step whose tail is too short makes parse() return Ok and leaves
\* every field as it was before the step.
C5_IncompleteIsNotAnError ==
    (ret.op = "parse"
       /\ TooShort(LastStep)) =>
        /\ ret.res = "Ok"
        /\ LastStep.after = LastStep.before

\* The same where the tail is ASCII.
AsciiIncompleteIsNotAnError ==
    (ret.op = "parse"
       /\ TooShort(LastStep)
       /\ (\A i \in 1..Len(LastStep.tail) : LastStep.tail[i] \notin {"xC3", "xA9"})) =>
        /\ ret.res = "Ok"
        /\ LastStep.after = LastStep.before

\* with read_body, the blank line has been read and neither length header
\* was recorded
NoLength ==
    /\ read_body
    /\ end_headers
    /\ CONTENT_LENGTH \notin DOMAIN parsed.headers
    /\ TRANSFER_ENCODING \notin DOMAIN parsed.headers

MissingLength == <<"Error parsing HTTP: Missing content length specifier", <<>>>>

\* C6: with read_body, the parse() call that reads the blank line with no
\* content-length and no transfer-encoding header recorded returns the
\* missing content length error; from then on the parser has failed with
\* that error and has no body.
C6_MissingLengthFatal ==
    /\ [](NoLength =>
            /\ error
            /\ ~aborted
            /\ is_none(parsed.body)
            /\ failure = Some(MissingLength))
    /\ [][(~end_headers /\ NoLength') =>
            /\ ret'.op = "parse"
            /\ ret'.res = "Err"
            /\ <<ret'.msg, ret'.arg>> = MissingLength]_vars

\* bytes were fed to a parser that had failed for the missing length
C6_Witness ==
    /\ NoLength
    /\ ret.op = "parse"
    /\ ret.n > 0
    /\ log[1].before.error
    /\ log[1].before.end_headers

\* without read_body, the blank line has been read
HeadersOnly == ~read_body /\ end_headers

\* the step of the last parse() call that read the blank line
BlankLineStep(i) ==
    /\ log[i].mode = "Header"
    /\ ~log[i].before.end_headers
    /\ log[i].after.end_headers

\* C7: without read_body, the step that reads the blank line succeeds, moves
\* the cursor behind the blank line and ends the parse() call, which returns
\* Ok; from then on should_continue() is false, there is no error but that
\* of eof(), the cursor stays behind the blank line, and there is never a
\* body.
C7_HeadersOnlyMode ==
    /\ [](~read_body => is_none(parsed.body))
    /\ [](HeadersOnly =>
            /\ ~should_continue(Self)
            /\ error => eof_called
            /\ ~aborted
            /\ pos <= Len(combined)
            /\ SubSeq(combined, pos - 1, pos) = CRLF)
    /\ []((~read_body /\ ret.op = "parse") =>
            \A i \in DOMAIN log :
                BlankLineStep(i) =>
                    /\ log[i].out = "Some(Ok)"
                    /\ log[i].after.pos = log[i].before.pos + 2
                    /\ i + 1 = Len(log)
                    /\ log[i + 1].why = "Return"
                    /\ pos = log[i].after.pos
                    /\ ret.res = "Ok")
    /\ [][HeadersOnly => pos' = pos]_vars

\* bytes behind the blank line were fed to a parser without read_body that
\* has recorded a transfer-encoding header
C7_Witness ==
    /\ HeadersOnly
    /\ TRANSFER_ENCODING \in DOMAIN parsed.headers
    /\ ~error
    /\ ret.op = "parse"
    /\ ret.n > 0
    /\ log[1].before.end_headers
    /\ pos < Len(combined)

\* C8: eof() returns an error and leaves code, msg, headers and body as they
\* were; once it has been called the error flag is set and
\* should_continue() is false.
C8_EofFails ==
    /\ [](eof_called => error /\ ~should_continue(Self))
    /\ [][ret'.op = "eof" => ret'.res = "Err" /\ parsed' = parsed]_vars

\* eof() was called after the response was complete
C8_Witness ==
    /\ ret.op = "eof"
    /\ is_some(parsed.body)
    /\ input = <<>>

\* the parser has reached its target: the mode selection of next(), the
\* error flag apart, falls through to the else branch
ReachedTarget == iter_mode([Self EXCEPT !.error = FALSE]) = "Return"

\* C9: should_continue() is false exactly when the parser has failed or
\* reached its target; when it is false without a failure, code and msg are
\* present and the blank line has been read, and with read_body the body is
\* present and as long as the content-length header says, without
\* read_body it is absent.
C9_CompletionPredicate ==
    /\ ~should_continue(Self) <=> (error \/ ReachedTarget)
    /\ (~should_continue(Self) /\ ~error) =>
        /\ is_some(parsed.code)
        /\ is_some(parsed.msg)
        /\ end_headers
        /\ read_body =>
            /\ is_some(parsed.body)
            /\ CONTENT_LENGTH \in DOMAIN parsed.headers
            /\ from_str_radix(parsed.headers[CONTENT_LENGTH])
                   = Some(String_len(parsed.body[1]))
        /\ ~read_body => is_none(parsed.body)

\* a body was read from a buffer that holds more than the body
C9_Witness ==
    /\ ~should_continue(Self)
    /\ ~error
    /\ read_body
    /\ \E i \in DOMAIN log :
          /\ log[i].mode = "Body"
          /\ log[i].out = "Some(Ok)"
          /\ Len(log[i].tail) > String_len(parsed.body[1])

\* C10: msg is present only with code, a header only with code and msg, a
\* body only once the blank line has been read and the content length is
\* known.
C10_OrderingInvariant ==
    /\ is_some(parsed.msg) => is_some(parsed.code)
    /\ DOMAIN parsed.headers # {} => is_some(parsed.code) /\ is_some(parsed.msg)
    /\ is_some(parsed.body) => end_headers /\ is_some(content_length)

\* eof() was called on a parser that has headers and a body
C10_Witness ==
    /\ eof_called
    /\ DOMAIN parsed.headers # {}
    /\ is_some(parsed.body)

\* the phases in their order; Return is Done
Rank == "Code" :> 0 @@ "Msg" :> 1 @@ "Header" :> 2 @@ "Body" :> 3 @@ "Return" :> 4

\* the phase of a parser with the fields f, its failure apart
Phase(f) == Rank[iter_mode([f EXCEPT !.error = FALSE])]

\* from the fields a to the fields b nothing present is lost or changed and
\* the phase does not go back
Monotonic(a, b) ==
    /\ is_some(a.parsed.code) => b.parsed.code = a.parsed.code
    /\ is_some(a.parsed.msg) => b.parsed.msg = a.parsed.msg
    /\ is_some(a.parsed.body) => b.parsed.body = a.parsed.body
    /\ a.end_headers => b.end_headers /\ b.parsed.headers = a.parsed.headers
    /\ Phase(a) <= Phase(b)

\* C11: over every parse() and eof() call, and over every step of a parse()
\* call, code, msg and body once present keep their value, end_headers stays
\* true, the headers do not change once end_headers is true, and the phase
\* never goes back.
C11_MonotonicConstruction ==
    /\ [][Monotonic(fields(Self), fields(Self)')]_vars
    /\ [](\A i \in DOMAIN log : Monotonic(log[i].before, log[i].after))

\* bytes were fed to a parser that had its body, after a call that took
\* the parser through more than one phase
C11_Witness ==
    /\ ret.op = "parse"
    /\ ret.n > 0
    /\ is_some(log[1].before.parsed.body)
    /\ DOMAIN parsed.headers # {}
    /\ ~error

\* the stream: what the parser has been given and what is still to come
Stream == combined \o input

IsAscii(b) == \A i \in 1..Len(b) : b[i] \notin {"xC3", "xA9"}

\* the position of the first ": " of a line; the name before it and the
\* value after it
HasSep(l) == \E p \in 1..(Len(l) - 1) : l[p] = ":" /\ l[p + 1] = " "

SepPos(l) ==
    CHOOSE p \in 1..(Len(l) - 1) :
        /\ l[p] = ":" /\ l[p + 1] = " "
        /\ \A q \in 1..(p - 1) : ~(l[q] = ":" /\ l[q + 1] = " ")

Name(l) == SubSeq(l, 1, SepPos(l) - 1)
Value(l) == SubSeq(l, SepPos(l) + 2, Len(l))

\* the chars before the first "\r\n" of a decoded tail
EolPos(d) ==
    CHOOSE j \in 1..(Len(d) - 1) :
        /\ d[j] = CR /\ d[j + 1] = LF
        /\ \A q \in 1..(j - 1) : ~(d[q] = CR /\ d[q + 1] = LF)

FirstLine(d) == SubSeq(d, 1, EolPos(d) - 1)

\* the last of the lines ls whose name is key ignoring case
LastNamed(ls, key) ==
    CHOOSE i \in 1..Len(ls) :
        /\ to_lowercase(Name(ls[i])) = key
        /\ \A j \in (i + 1)..Len(ls) : to_lowercase(Name(ls[j])) # key

\* the headers that the header lines ls stand for
HeadersOf(ls) ==
    [key \in {to_lowercase(Name(ls[i])) : i \in 1..Len(ls)} |->
        Value(ls[LastNamed(ls, key)])]

\* a Header step of the last parse() call that recorded a header
RecordedHeader(i) ==
    /\ log[i].mode = "Header"
    /\ log[i].out = "Some(Ok)"
    /\ ~log[i].after.end_headers

FailsWith(i, msg) ==
    /\ log[i].out = "Some(Err)"
    /\ log[i].after = [log[i].before EXCEPT !.error = TRUE]
    /\ i = Len(log)
    /\ ret.res = "Err"
    /\ ret.msg = "Error parsing HTTP: " \o msg

\* the chars d at the cursor start with "HTTP/1.1 "
StartsWithLiteral(d) == Len(d) >= 9 /\ SubSeq(d, 1, 9) = HTTP_1_1

\* one of the chars 10..12 of d that are there is no ASCII digit
NonDigit(d) ==
    \E i \in 10..Min(12, Len(d)) :
        d[i] \notin {"0", "1", "2", "3", "4", "5", "6", "7", "8", "9"}

\* the base-10 value of the chars 10..12 of d
CodeValue(d) == 100 * DigitVal[d[10]] + 10 * DigitVal[d[11]] + DigitVal[d[12]]

\* what C13 says of a Code step with the chars d at the cursor
StatusLineStep(i, d) ==
    /\ (StartsWithLiteral(d) /\ NonDigit(d)) =>
           FailsWith(i, "HTTP code must be 3 digits")
    /\ (Len(d) >= 9 /\ ~StartsWithLiteral(d)) =>
           FailsWith(i, "Comparison failed")
    /\ (StartsWithLiteral(d) /\ ~NonDigit(d) /\ Len(d) >= 13 /\ d[13] # " ") =>
           FailsWith(i, "Comparison failed")
    /\ (StartsWithLiteral(d) /\ ~NonDigit(d) /\ Len(d) >= 13 /\ d[13] = " ") =>
           /\ log[i].out = "Some(Ok)"
           /\ CodeValue(d) \in 0..999
           /\ log[i].after =
                  [log[i].before EXCEPT !.parsed.code = Some(CodeValue(d)),
                                        !.pos = @ + 13]

\* C13: a Code step fails with "HTTP code must be 3 digits" as soon as one
\* of the three chars buffered behind "HTTP/1.1 " is no digit, fails when
\* the first nine chars are not "HTTP/1.1 " or the char behind the digits is
\* no space, and otherwise, 13 chars being buffered, sets code to the value
\* of the digits and moves the cursor by 13.
C13_StatusLineStep ==
    \A i \in DOMAIN log :
        log[i].mode = "Code" /\ log[i].why # "slice" =>
            StatusLineStep(i, from_utf8_lossy(log[i].tail))

\* the step failed on a non-digit before the 13 chars were buffered
C13_Witness ==
    /\ ret.op = "parse"
    /\ LastStep.mode = "Code"
    /\ ret.msg = "Error parsing HTTP: HTTP code must be 3 digits"
    /\ Len(LastStep.tail) < 13

\* what C14 says of a Body step with the chars d at the cursor and the
\* content length len
BodyStep(i, d, len) ==
    /\ Len(d) < len =>
           /\ log[i].out = "None"
           /\ log[i].after = log[i].before
    /\ Len(d) >= len =>
           /\ log[i].out = "Some(Ok)"
           /\ log[i].after =
                  [log[i].before EXCEPT !.parsed.body = Some(SubSeq(d, 1, len)),
                                        !.pos = @ + len]

\* C14: a Body step leaves the body absent while fewer than content_length
\* chars are buffered at the cursor; otherwise it sets the body to the first
\* content_length chars and moves the cursor by content_length, so that what
\* is buffered behind the body is not consumed.  (Stated of the steps with
\* ASCII bytes at the cursor, where a char is a byte.)
C14_BodyStep ==
    \A i \in DOMAIN log :
        (log[i].mode = "Body"
           /\ log[i].why # "slice"
           /\ is_some(log[i].before.content_length)
           /\ IsAscii(log[i].tail)) =>
            BodyStep(i, from_utf8_lossy(log[i].tail), log[i].before.content_length[1])

\* The same of the Body steps that leave the body absent or have exactly
\* content_length ASCII bytes at the cursor.
AsciiExactBodyStep ==
    \A i \in DOMAIN log :
        (log[i].mode = "Body"
           /\ log[i].why # "slice"
           /\ is_some(log[i].before.content_length)
           /\ IsAscii(log[i].tail)
           /\ Len(log[i].tail) <= log[i].before.content_length[1]) =>
            BodyStep(i, from_utf8_lossy(log[i].tail), log[i].before.content_length[1])

\* the bytes of the tail t that a step of the mode recognises: the 13 of
\* the status line, or a line with its CR LF
Recognised(mode, t) == IF mode = "Code" THEN 13 ELSE EolPos(t) + 1

\* a status-line, reason-phrase or header step of the last parse() call
\* that succeeded
LineStepDone(i) ==
    /\ log[i].mode \in {"Code", "Msg", "Header"}
    /\ log[i].out = "Some(Ok)"

\* C15: a successful status-line, reason-phrase or header step moves the
\* cursor by the bytes of the line it recognised, CR LF included, whatever
\* is buffered behind the line and whatever chars the line holds.
C15_CursorDiscipline ==
    \A i \in DOMAIN log :
        LineStepDone(i) =>
            log[i].after.pos = log[i].before.pos + Recognised(log[i].mode, log[i].tail)

\* The same of the steps with ASCII bytes at the cursor.
AsciiCursorDiscipline ==
    \A i \in DOMAIN log :
        (LineStepDone(i) /\ IsAscii(log[i].tail)) =>
            log[i].after.pos = log[i].before.pos + Recognised(log[i].mode, log[i].tail)

\* v is a string of decimal digits, at least one
AllDigits(v) == v # <<>> /\ \A j \in 1..Len(v) : v[j] \in DOMAIN DigitVal

\* v holds a char that no base-10 non-negative integer holds
NotANumber(v) == v = <<>> \/ \E j \in 1..Len(v) : v[j] \notin DOMAIN DigitVal \cup {"+"}

\* what C16 says of the step i that reads the blank line with only the
\* content-length header recorded, v being its value
ContentLengthStep(i, v) ==
    /\ AllDigits(v) => from_str_radix(v) = Some(DigitsValue(v, 0))
    /\ NotANumber(v) => is_none(from_str_radix(v))
    /\ is_some(from_str_radix(v)) =>
           /\ log[i].out = "Some(Ok)"
           /\ log[i].after =
                  [log[i].before EXCEPT !.end_headers = TRUE,
                                        !.content_length = from_str_radix(v),
                                        !.pos = @ + 2]
    /\ is_none(from_str_radix(v)) =>
           /\ log[i].out = "Some(Err)"
           /\ log[i].after = [log[i].before EXCEPT !.end_headers = TRUE,
                                                   !.error = TRUE]
           /\ i = Len(log)
           /\ ret.res = "Err"
           /\ ret.msg = "Error parsing HTTP: Error parsing content length: "
           /\ ret.arg = v
           /\ is_none(parsed.body)

\* C16: with read_body, a parser that has recorded a transfer-encoding
\* header never has a content length or a body, whatever other header it
\* has; the step that reads the blank line with only content-length
\* recorded makes its base-10 value the content length, and fails with
\* "Error parsing content length" and no body if the value is no number.
C16_BodyLengthDecision ==
    /\ (read_body /\ TRANSFER_ENCODING \in DOMAIN parsed.headers) =>
           is_none(content_length) /\ is_none(parsed.body)
    /\ (error /\ is_some(failure)
          /\ failure[1][1] = "Error parsing HTTP: Error parsing content length: ") =>
           is_none(parsed.body)
    /\ \A i \in DOMAIN log :
          (BlankLineStep(i)
             /\ read_body
             /\ TRANSFER_ENCODING \notin DOMAIN log[i].before.parsed.headers
             /\ CONTENT_LENGTH \in DOMAIN log[i].before.parsed.headers) =>
              ContentLengthStep(i, log[i].before.parsed.headers[CONTENT_LENGTH])

\* bytes were fed to a parser that had failed on a content-length value
\* that is no number
C16_Witness ==
    /\ read_body
    /\ end_headers
    /\ is_some(failure)
    /\ failure[1] = <<"Error parsing HTTP: Error parsing content length: ", <<"z">>>>
    /\ ret.op = "parse"
    /\ ret.n > 0
    /\ log[1].before.error

\* what C17 says of a Header step with the line at the cursor
HeaderLineStep(i, line) ==
    /\ line = <<>> =>
           /\ log[i].after.end_headers
           /\ log[i].after.parsed.headers = log[i].before.parsed.headers
    /\ (line # <<>> /\ HasSep(line)) =>
           /\ log[i].out = "Some(Ok)"
           /\ ~log[i].after.end_headers
           /\ log[i].after.parsed.headers =
                  (to_lowercase(Name(line)) :> Value(line))
                  @@ log[i].before.parsed.headers
    /\ (line # <<>> /\ ~HasSep(line)) =>
           /\ FailsWith(i, "Invalid HTTP header: ")
           /\ ret.arg = line

\* C17: a Header step with a CR LF buffered at the cursor ends the headers
\* and records nothing if the line is empty, records the name before and
\* the value behind the first ": " of a line that has one, and fails with
\* "Invalid HTTP header", recording nothing, on any other line.
C17_HeaderLineStep ==
    \A i \in DOMAIN log :
        (log[i].mode = "Header"
           /\ log[i].why # "slice"
           /\ HasCRLF(from_utf8_lossy(log[i].tail))) =>
            HeaderLineStep(i, FirstLine(from_utf8_lossy(log[i].tail)))

\* parse() failed on the header line "garbage", the first of the headers
C17_Witness ==
    /\ ret.op = "parse"
    /\ LastStep.mode = "Header"
    /\ ret.msg = "Error parsing HTTP: Invalid HTTP header: "
    /\ ret.arg = <<"g", "a", "r", "b", "a", "g", "e">>
    /\ DOMAIN parsed.headers = {}

\* the stream has ended and the loop of HttpParsed::read goes on
EndOfStream == Running /\ input = <<>> /\ should_continue(Self)

\* C18: in HttpParsed::read, once the stream has ended with
\* should_continue() true, the loop comes to an end.
C18_LoopTermination == EndOfStream ~> ~Running

\* C18, the step: a turn of the loop taken at the end of the stream calls
\* eof() and leaves the loop without a panic.
C18_EofAtEndOfStream ==
    [][EndOfStream => eof_called' /\ ~aborted' /\ ~should_continue(Self)']_vars

\* the last call was parse() on the whole stream, the first call made
OneCall ==
    /\ ret.op = "parse"
    /\ ret.n > 0
    /\ ret.n = Len(combined)
    /\ input = <<>>
    /\ ~eof_called

\* the well-formed response that is the stream
TheCase == CHOOSE c \in WellFormedCases : Response(c) = Stream

\* the names of the header lines ls as they were sent
NamesOf(ls) == {Name(ls[i]) : i \in 1..Len(ls)}

\* what C19 says of the response c, parsed by the parser of http.rs in the
\* state and by the parser of main.rs with the result m
Diverge(c, m) ==
    /\ ret.res = "Ok"
    /\ ~error
    /\ CONTENT_LENGTH \in DOMAIN parsed.headers
    /\ parsed.body = Some(from_utf8_lossy(c.rest))
    /\ DOMAIN m.self.parsed.headers = NamesOf(c.lines)
    /\ Content_Length \in NamesOf(c.lines) =>
           /\ m.res = "Ok"
           /\ m.self.parsed.body = parsed.body
    /\ Content_Length \notin NamesOf(c.lines) =>
           /\ m.res = "Err"
           /\ m.msg = "Error parsing HTTP: Missing content length specifier"
           /\ m.self.error
           /\ is_none(m.self.parsed.body)

\* C19: of a well-formed response given in one parse() call, the parser of
\* http.rs with read_body has the length under "content-length" and the
\* body; the parser of main.rs has the names as they were sent, and has the
\* same body if the length is spelled "Content-Length", and fails with
\* "Missing content length specifier" if it is spelled otherwise.
C19_ParserCopiesDiverge ==
    (OneCall /\ read_body /\ combined \in WellFormed) =>
        Diverge(TheCase, main_parse(main_init, combined))

\* the parser of http.rs has read the body of a response whose length is
\* spelled "content-length", on which the parser of main.rs fails
C19_Witness ==
    /\ OneCall
    /\ read_body
    /\ combined \in WellFormed
    /\ CONTENT_LENGTH \in NamesOf(TheCase.lines)
    /\ is_some(parsed.body)
    /\ main_parse(main_init, combined).res = "Err"

\* every successful step of the last parse() call moved the cursor forward
\* or the parser to a later phase, only the last step was not successful,
\* and there were no more steps than buffered bytes and phases
StepsProgress ==
    /\ \A i \in DOMAIN log :
          /\ log[i].out = "Some(Ok)" =>
                \/ log[i].after.pos > log[i].before.pos
                \/ Phase(log[i].after) > Phase(log[i].before)
          /\ (log[i].out = "Some(Ok)") <=> (i < Len(log))
    /\ Len(log) >= 1
    /\ Len(log) <= Len(combined) + 5

\* C20: a parse() call returns, after finitely many steps: every successful
\* step moves the cursor forward or the parser to a later phase, and the
\* call ends with the first step that is incomplete or fatal, or that finds
\* the parser failed or complete.
C20_ParseReturns ==
    ret.op = "parse" =>
        /\ StepsProgress
        /\ LastStep.out \in {"None", "Some(Err)"}
        /\ ret.res \in {"Ok", "Err"}

\* The steps of a parse() call, whether it returns or panics.
ParseStepsProgress == ret.op = "parse" => StepsProgress

\* C21: the cursor is within the buffer, 0 <= pos <= combined.len(), so that
\* no step of a parse() call finds the slice combined[pos..] out of range.
C21_CursorBound ==
    /\ pos \in 0..Len(combined)
    /\ \A i \in DOMAIN log :
          /\ log[i].before.pos \in 0..Len(combined)
          /\ log[i].why # "slice"

\* The same of the streams whose bytes are all ASCII.
AsciiCursorBound == IsAscii(Stream) => C21_CursorBound

\* The parser is done: should_continue() is false and no failure was
\* recorded (the body is set with read_body, the blank line was consumed
\* without it).
Done == ~should_continue(Self) /\ ~error /\ ~aborted

\* C22: done is absorbing under parse(): every parse() call made by a parser
\* that is done returns Ok(()) and leaves code, msg, headers, body, the
\* error flag and the cursor as they were; eof() still sets the error flag.
C22_DoneIsAbsorbing ==
    [][Done =>
         /\ ret'.op = "parse" =>
               /\ ret'.res = "Ok"
               /\ parsed' = parsed
               /\ error' = error
               /\ pos' = pos
         /\ ret'.op = "eof" => error']_vars


\* bytes were fed to a parser with read_body whose body was set by an
\* earlier call: the only step of the call found nothing to do
C22_Witness ==
    /\ read_body
    /\ is_some(parsed.body)
    /\ ~error
    /\ ret.op = "parse"
    /\ ret.res = "Ok"
    /\ ret.n > 0
    /\ Len(log) = 1
    /\ log[1].mode = "Return"
    /\ is_some(log[1].before.parsed.body)
    /\ pos < Len(combined)
====
